---- MODULE Spec2Model ----
\* ShaderProgram (src/using-default-vite/src/ShaderProgram.ts): a WebGL surface
\* with named uniforms and buffers, a resize handler, a frame loop and teardown.
\* The instance, the WebGL context, the DOM and the frame scheduler are one state
\* record; every method is an operator from state to state, composed exactly as
\* the method bodies call one another.  The host is single threaded, so one
\* action is one complete run of one handler (with the user callbacks it calls).
EXTENDS Integers, Sequences, FiniteSets, TLC

VARIABLES
    phase, thrown, log, last,
    objects, arrayBuffer, currentProgram,
    uniforms, buffers, uniformsOwn, buffersOwn,
    count, width, height, aspect, camera, canvas,
    animationFrameId, resizeHandler, mousemoveHandler, program, texture,
    listeners, rafPending, rafNext, time, now,
    destroyCalls, frames, writes, written

vars ==
    << phase, thrown, log, last, objects, arrayBuffer, currentProgram,
       uniforms, buffers, uniformsOwn, buffersOwn,
       count, width, height, aspect, camera, canvas,
       animationFrameId, resizeHandler, mousemoveHandler, program, texture,
       listeners, rafPending, rafNext, time, now, destroyCalls, frames, writes,
       written >>

-----------------------------------------------------------------------------
\* Bounds of the exploration.

\* frames the host may run after the constructor's own first update()
MaxFrames == 1
\* writes the user may issue through uniforms.<name>, buffers.<name> and
\* setBuffer, all of them while the surface has not been destroyed
MaxWrites == 1
\* direct destroy() calls by the user (calls from callbacks are not limited)
MaxDestroy == 2
\* position data written by the user holds 0..MaxTriples triples
MaxTriples == 1

-----------------------------------------------------------------------------
\* JavaScript numbers that arise from divisions are kept exact, as reduced
\* fractions <<numerator, denominator>> with a positive denominator.

Abs(x) == IF x < 0 THEN -x ELSE x

RECURSIVE GCD(_, _)
GCD(a, b) == IF b = 0 THEN a ELSE GCD(b, a % b)

\* n / d for d # 0
Div(n, d) ==
    LET g == GCD(Abs(n), Abs(d))
        sign == IF d < 0 THEN -1 ELSE 1
    IN  << sign * (n \div g), sign * (d \div g) >>

RAdd(p, q) == Div(p[1] * q[2] + q[1] * p[2], p[2] * q[2])
RSub(p, q) == Div(p[1] * q[2] - q[1] * p[2], p[2] * q[2])
RMul(p, q) == Div(p[1] * q[1], p[2] * q[2])
RDiv(p, q) == Div(p[1] * q[2], p[2] * q[1])

\* the number n
R(n) == << n, 1 >>

Positive(q) == q[1] > 0

\* an array of n copies of q
Fill(n, q) == [i \in 1..n |-> q]

\* null / undefined for handles, locations and frame ids
Null == 0

NoError == << >>

-----------------------------------------------------------------------------
\* The state as one record, and its write-back.

Cur ==
    [ phase |-> phase, thrown |-> thrown, log |-> log, last |-> last,
      objects |-> objects, arrayBuffer |-> arrayBuffer,
      currentProgram |-> currentProgram,
      uniforms |-> uniforms, buffers |-> buffers,
      uniformsOwn |-> uniformsOwn, buffersOwn |-> buffersOwn,
      count |-> count, width |-> width, height |-> height, aspect |-> aspect,
      camera |-> camera, canvas |-> canvas,
      animationFrameId |-> animationFrameId, resizeHandler |-> resizeHandler,
      mousemoveHandler |-> mousemoveHandler, program |-> program,
      texture |-> texture, listeners |-> listeners, rafPending |-> rafPending,
      rafNext |-> rafNext, time |-> time, now |-> now,
      destroyCalls |-> destroyCalls, frames |-> frames, writes |-> writes,
      written |-> written ]

Commit(s) ==
    /\ phase' = s.phase
    /\ thrown' = s.thrown
    /\ log' = s.log
    /\ last' = s.last
    /\ objects' = s.objects
    /\ arrayBuffer' = s.arrayBuffer
    /\ currentProgram' = s.currentProgram
    /\ uniforms' = s.uniforms
    /\ buffers' = s.buffers
    /\ uniformsOwn' = s.uniformsOwn
    /\ buffersOwn' = s.buffersOwn
    /\ count' = s.count
    /\ width' = s.width
    /\ height' = s.height
    /\ aspect' = s.aspect
    /\ camera' = s.camera
    /\ canvas' = s.canvas
    /\ animationFrameId' = s.animationFrameId
    /\ resizeHandler' = s.resizeHandler
    /\ mousemoveHandler' = s.mousemoveHandler
    /\ program' = s.program
    /\ texture' = s.texture
    /\ listeners' = s.listeners
    /\ rafPending' = s.rafPending
    /\ rafNext' = s.rafNext
    /\ time' = s.time
    /\ now' = s.now
    /\ destroyCalls' = s.destroyCalls
    /\ frames' = s.frames
    /\ writes' = s.writes
    /\ written' = s.written

\* one call on the graphics context, the DOM or the scheduler, or one user
\* callback invocation, appended to the record of the running handler
Call(s, fn, args) == [s EXCEPT !.log = Append(@, << fn, args >>)]

-----------------------------------------------------------------------------
\* The graphics context: every object it hands out is an entry of `objects`,
\* its handle the entry's index.  Pure queries and calls that change nothing
\* the program reads back (shaderSource, attachShader, enable, blendFunc,
\* texImage2D, ...) are not recorded.

glCreate(s, fn, kind) ==
    Call([s EXCEPT !.objects =
              Append(@, [kind |-> kind, deletes |-> 0, data |-> << >>])],
         fn, << Len(s.objects) + 1 >>)

\* deleteShader / deleteProgram / deleteBuffer / deleteTexture: the call is
\* issued whatever the object's state; an object that is bound as ARRAY_BUFFER
\* is unbound by its deletion.
glDelete(s, fn, h) ==
    Call([s EXCEPT !.objects[h].deletes = @ + 1,
                   !.arrayBuffer = IF @ = h THEN Null ELSE @],
         fn, << h >>)

\* bindBuffer(ARRAY_BUFFER, h): binding a deleted buffer is an INVALID_OPERATION
\* that leaves the binding as it was.
glBindBuffer(s, h) ==
    Call([s EXCEPT !.arrayBuffer =
              IF h = Null THEN Null
              ELSE IF s.objects[h].deletes > 0 THEN @ ELSE h],
         "bindBuffer", << h >>)

\* new Float32Array(data): the values used here are small integers, which
\* binary32 holds exactly (|x| < 2^24); anything else would be rounded.
Float32Array(data) == [i \in 1..Len(data) |-> data[i]]

\* bufferData(ARRAY_BUFFER, data, STATIC_DRAW) fills the bound buffer
glBufferData(s, data) ==
    Call([s EXCEPT !.objects =
              IF s.arrayBuffer = Null THEN @
              ELSE [@ EXCEPT ![s.arrayBuffer].data = data]],
         "bufferData", << data, "STATIC_DRAW" >>)

Throw(s, message) == [s EXCEPT !.thrown = message]

\* Statement sequencing: `first` is evaluated to a state before `rest` is
\* applied to it (a LET is evaluated only where its name is first used, which
\* nests the evaluation of a long method body as deep as it is long).
Then(first, rest(_)) == CHOOSE r \in { rest(x) : x \in { first } } : TRUE

-----------------------------------------------------------------------------
\* createShader, createProgram

ShaderKinds == { "VERTEX_SHADER", "FRAGMENT_SHADER" }

createShader(s, type, compiles, infoLog) ==
    LET s1 == glCreate(s, "createShader", type)
        shader == Len(s1.objects)
    IN  IF compiles
        THEN s1
        ELSE Throw(glDelete(s1, "deleteShader", shader),
                   << "Shader compilation failed: ", infoLog >>)

createProgram(s, build) ==
    Then(createShader(s, "VERTEX_SHADER", build.vertex, build.infoLog),
         LAMBDA s1 :
    IF s1.thrown # NoError THEN s1 ELSE
    Then(createShader(s1, "FRAGMENT_SHADER", build.fragment, build.infoLog),
         LAMBDA s2 :
    IF s2.thrown # NoError THEN s2 ELSE
    Then(glCreate(s2, "createProgram", "program"), LAMBDA s3 :
    LET prog == Len(s3.objects)
    IN  IF build.link
        THEN [Call(s3, "useProgram", << prog >>)
                 EXCEPT !.program = prog, !.currentProgram = prog]
        ELSE Throw(glDelete(s3, "deleteProgram", prog),
                   << "Program linking failed: ", build.infoLog >>))))

\* shader objects the context still holds
LiveShaders(s) ==
    { h \in 1..Len(s.objects) :
        s.objects[h].kind \in ShaderKinds /\ s.objects[h].deletes = 0 }

-----------------------------------------------------------------------------
\* Uniforms

\* the constructor's five uniforms, then the ones of options.uniforms: here one
\* of each remaining kind, so that all eight kinds are registered
UniformOrder ==
    << "time", "hasTexture", "resolution", "mousemove", "projection",
       "tint", "shade", "skew", "basis" >>

UniformNames == { UniformOrder[i] : i \in 1..Len(UniformOrder) }

UniformType(name) ==
    CASE name = "time" -> "float"
      [] name = "hasTexture" -> "int"
      [] name = "resolution" -> "vec2"
      [] name = "mousemove" -> "vec2"
      [] name = "projection" -> "mat4"
      [] name = "tint" -> "vec3"
      [] name = "shade" -> "vec4"
      [] name = "skew" -> "mat2"
      [] name = "basis" -> "mat3"

\* how many numbers a value of the kind holds (0: a plain number)
KindSize(type) ==
    CASE type \in { "int", "float" } -> 0
      [] type = "vec2" -> 2
      [] type = "vec3" -> 3
      [] type = "vec4" -> 4
      [] type = "mat2" -> 4
      [] type = "mat3" -> 9
      [] type = "mat4" -> 16

ValueOfKind(type, q) == IF KindSize(type) = 0 THEN q ELSE Fill(KindSize(type), q)

\* [1, 0, 0, 0, 0, 1, 0, 0, 0, 0, 1, 0, 0, 0, 0, 1]
IdentityMat4 ==
    [i \in 1..16 |-> IF (i - 1) % 5 = 0 THEN R(1) ELSE R(0)]

InitialUniformValue(name) ==
    IF name = "projection" THEN IdentityMat4
    ELSE ValueOfKind(UniformType(name), R(0))

\* gl.getUniformLocation(program, "u_" + name): a location object for a uniform
\* that is active in the linked program, null otherwise
getUniformLocation(active, name) ==
    IF name \in active
    THEN CHOOSE i \in 1..Len(UniformOrder) : UniformOrder[i] = name
    ELSE Null

createUniforms(s, active) ==
    [s EXCEPT !.uniforms =
        [name \in UniformNames |->
            [ type |-> UniformType(name),
              value |-> InitialUniformValue(name),
              location |-> getUniformLocation(active, name) ]],
              !.uniformsOwn = { }]

\* the type-specific upload call
UploadCallWrongKind(type) ==
    CASE type = "int" -> "uniform1i"
      [] type = "float" -> "uniform1f"
      [] type = "vec2" -> "uniform2f"
      [] type = "vec3" -> "uniform2f"
      [] type = "vec4" -> "uniform4f"
      [] type = "mat2" -> "uniformMatrix2fv"
      [] type = "mat3" -> "uniformMatrix3fv"
      [] type = "mat4" -> "uniformMatrix4fv"

UploadCall(type) ==
    CASE type = "int" -> "uniform1i"
      [] type = "float" -> "uniform1f"
      [] type = "vec2" -> "uniform2f"
      [] type = "vec3" -> "uniform3f"
      [] type = "vec4" -> "uniform4f"
      [] type = "mat2" -> "uniformMatrix2fv"
      [] type = "mat3" -> "uniformMatrix3fv"
      [] type = "mat4" -> "uniformMatrix4fv"

UploadArgs(type, location, value) ==
    CASE type \in { "int", "float" } -> << location, value >>
      [] type \in { "vec2", "vec3", "vec4" } -> << location >> \o value
      [] type \in { "mat2", "mat3", "mat4" } -> << location, FALSE, value >>

UploadCalls == { UploadCall(UniformType(name)) : name \in UniformNames }

setUniform(s, name, value) ==
    IF name \notin DOMAIN s.uniforms \/ s.uniforms[name].location = Null
    THEN s
    ELSE LET uniform == s.uniforms[name]
         IN  Call([s EXCEPT !.uniforms[name].value = value],
                  UploadCall(uniform.type),
                  UploadArgs(uniform.type, uniform.location, value))

\* assignment to a name of an accessor object that has no accessor for it: an
\* ordinary own property is stored on that object
SetOwn(own, name, value) ==
    { p \in own : p[1] # name } \cup { << name, value >> }

\* this.uniforms[name] = value
UniformSetter(s, name, value) ==
    IF name \in DOMAIN s.uniforms
    THEN setUniform([s EXCEPT !.uniforms[name].value = value], name, value)
    ELSE [s EXCEPT !.uniformsOwn = SetOwn(@, name, value)]

\* this.uniforms[name]
UniformGetter(s, name) == s.uniforms[name].value

RECURSIVE updateUniformsFrom(_, _)
updateUniformsFrom(s, i) ==
    IF i > Len(UniformOrder) THEN s
    ELSE Then(UniformSetter(s, UniformOrder[i],
                            s.uniforms[UniformOrder[i]].value),
              LAMBDA s1 : updateUniformsFrom(s1, i + 1))

updateUniforms(s) == updateUniformsFrom(s, 1)

-----------------------------------------------------------------------------
\* Buffers

\* the constructor's two buffers; options.buffers may replace their data
BufferOrder == << "position", "color" >>

BufferNames == { BufferOrder[i] : i \in 1..Len(BufferOrder) }

BufferSize(name) == IF name = "position" THEN 3 ELSE 4

\* the `null` name of setBuffer(null)
NullName == "null"

createBuffer(s, name, size) ==
    LET s1 == glCreate(s, "createBuffer", "buffer")
        buffer == Len(s1.objects)
    IN  Call(glBindBuffer(s1, buffer),
             "vertexAttribPointer", << name, size >>)

RECURSIVE createBuffersFrom(_, _, _)
createBuffersFrom(s, data, i) ==
    IF i > Len(BufferOrder) THEN s
    ELSE Then(createBuffer(s, "a_" \o BufferOrder[i], BufferSize(BufferOrder[i])),
              LAMBDA s1 :
                  createBuffersFrom(
                      [s1 EXCEPT !.buffers[BufferOrder[i]].buffer = Len(s1.objects)],
                      data, i + 1))

createBuffers(s, data) ==
    createBuffersFrom(
        [s EXCEPT !.buffers =
                      [name \in BufferNames |->
                          [ size |-> BufferSize(name), data |-> data[name],
                            buffer |-> Null ]],
                  !.buffersOwn = { }],
        data, 1)

\* setBuffer(name, data); hasData is FALSE for setBuffer(name).  An array, empty
\* or not, is truthy.  buffers[name].buffer of a name that is no key of
\* data.buffers is a property read on undefined: a TypeError.
setBuffer(s, name, hasData, data) ==
    IF name = NullName THEN glBindBuffer(s, Null)
    ELSE IF ~hasData THEN s
    ELSE IF name \notin DOMAIN s.buffers
         THEN Throw(s, << "TypeError: ", "buffers[name] is undefined" >>)
         ELSE glBufferData(glBindBuffer(s, s.buffers[name].buffer),
                           Float32Array(data))

\* this.count after a write through buffers[name]
CountAfterAnyName(s, name) ==
    Div(Len(s.buffers[name].data), 3)

CountAfter(s, name) ==
    IF name = "position"
    THEN Div(Len(s.buffers["position"].data), 3)
    ELSE s.count

\* this.buffers[name] = data
BufferSetter(s, name, data) ==
    IF name \in DOMAIN s.buffers
    THEN Then(setBuffer([s EXCEPT !.buffers[name].data = data],
                        name, TRUE, data),
              LAMBDA s1 : [s1 EXCEPT !.count = CountAfter(s1, name)])
    ELSE [s EXCEPT !.buffersOwn = SetOwn(@, name, data)]

RECURSIVE updateBuffersFrom(_, _)
updateBuffersFrom(s, i) ==
    IF i > Len(BufferOrder) THEN s
    ELSE Then(BufferSetter(s, BufferOrder[i], s.buffers[BufferOrder[i]].data),
              LAMBDA s1 : updateBuffersFrom(s1, i + 1))

updateBuffers(s) ==
    setBuffer(updateBuffersFrom(s, 1), NullName, FALSE, << >>)

-----------------------------------------------------------------------------
\* Texture.  The image of loadTexture is only ever uploaded into the texture
\* object; its load changes nothing else and is left out.

createTexture(s, src) ==
    LET s1 == glCreate(s, "createTexture", "texture")
        s2 == [s1 EXCEPT !.texture = Len(s1.objects)]
    IN  IF src THEN UniformSetter(s2, "hasTexture", R(1)) ELSE s2

-----------------------------------------------------------------------------
\* User callbacks.  onUpdate and onResize are bound to the instance, so a
\* callback may call any public method of it; the one modelled is destroy().

CallbackOps == { "none", "destroy" }

\* cancelAnimationFrame(id): a no-op for an id that is not pending
cancelAnimationFrame(s, id) ==
    Call([s EXCEPT !.rafPending = @ \ { id }], "cancelAnimationFrame", << id >>)

\* a host call that registers no callback
requestAnimationFrameUnscheduled(s) ==
    Call([s EXCEPT !.rafNext = @ + 1], "requestAnimationFrame", << s.rafNext >>)

\* requestAnimationFrame(this.update), returning the new id
requestAnimationFrame(s) ==
    Call([s EXCEPT !.rafPending = @ \cup { s.rafNext },
                   !.rafNext = @ + 1],
         "requestAnimationFrame", << s.rafNext >>)

destroyLoop(s) ==
    IF s.animationFrameId # Null
    THEN [cancelAnimationFrame(s, s.animationFrameId)
             EXCEPT !.animationFrameId = Null]
    ELSE s

destroyListenersKeepMouse(s) ==
    IF s.resizeHandler
    THEN [Call(s, "removeEventListener", << "resize" >>)
             EXCEPT !.listeners = @ \ { "resize" }, !.resizeHandler = FALSE]
    ELSE s

destroyListeners(s) ==
    LET s1 == IF s.resizeHandler
              THEN [Call(s, "removeEventListener", << "resize" >>)
                       EXCEPT !.listeners = @ \ { "resize" },
                              !.resizeHandler = FALSE]
              ELSE s
    IN  IF s1.mousemoveHandler
        THEN [Call(s1, "removeEventListener", << "mousemove" >>)
                 EXCEPT !.listeners = @ \ { "mousemove" },
                        !.mousemoveHandler = FALSE]
        ELSE s1

RECURSIVE destroyBuffersFrom(_, _)
destroyBuffersFrom(s, i) ==
    IF i > Len(BufferOrder) THEN s
    ELSE LET buffer == s.buffers[BufferOrder[i]].buffer
         IN  Then(IF buffer # Null
                  THEN glDelete(s, "deleteBuffer", buffer) ELSE s,
                  LAMBDA s1 : destroyBuffersFrom(s1, i + 1))

destroyResources(s) ==
    Then(destroyBuffersFrom(s, 1), LAMBDA s1 :
    Then(IF s1.texture # Null
         THEN glDelete(s1, "deleteTexture", s1.texture) ELSE s1, LAMBDA s2 :
    IF s2.program # Null
    THEN glDelete(s2, "deleteProgram", s2.program) ELSE s2))

destroyCanvas(s) ==
    IF s.canvas.attached
    THEN [Call(s, "removeChild", << "canvas" >>) EXCEPT !.canvas.attached = FALSE]
    ELSE s

destroy(s) ==
    Then(destroyLoop(s), LAMBDA s1 :
    Then(destroyListeners(s1), LAMBDA s2 :
    Then(destroyResources(s2), LAMBDA s3 :
    [destroyCanvas(s3) EXCEPT !.destroyCalls = @ + 1])))

runCallback(s, op) == IF op = "destroy" THEN destroy(s) ELSE s

-----------------------------------------------------------------------------
\* Projection

\* Math.tan(Math.PI * 0.5 - 0.5 * fov * (Math.PI / 180)): rational only at the
\* field of view used here, 90 degrees, where it is tan(pi/4) = 1
TanOfHalfComplement(fov) == CASE fov = 90 -> R(1)

\* the camera after setProjection(aspect)
CameraAfterNever(s, a) == s.camera

CameraAfter(s, a) ==
    IF s.camera.perspective THEN [s.camera EXCEPT !.aspect = a] ELSE s.camera

\* the matrix setProjection returns, from the camera it has just updated
ProjectionMatrix(s, cam) ==
    IF cam.perspective
    THEN LET f == TanOfHalfComplement(cam.fov)
             rangeInv == RDiv(R(1), R(cam.near - cam.far))
             z == R(cam.z)
         IN  << RDiv(f, cam.aspect), R(0), R(0), R(0),
                R(0), f, R(0), R(0),
                R(0), R(0), RMul(R(cam.near + cam.far), rangeInv), R(-1),
                R(0), R(0),
                RAdd(RMul(RMul(R(cam.near * cam.far), rangeInv), R(2)), z),
                RAdd(R(0), z) >>
    ELSE << Div(2, s.width), R(0), R(0), R(0),
            R(0), Div(-2, s.height), R(0), R(0),
            R(0), R(0), R(1), R(0),
            R(-1), R(1), R(0), R(1) >>

-----------------------------------------------------------------------------
\* resize, mousemove, _update

\* size * dpi for a layout size and a device pixel ratio
BackingSizeUnscaled(size, dpi) == R(size)

BackingSize(size, dpi) == RMul(R(size), dpi)

\* what canvas.width and canvas.height keep of an assigned non-negative
\* number: its integer part
ToPixels(q) == q[1] \div q[2]

resize(s, box, dpi, op) ==
    LET w == box[1]
        h == box[2]
        a == Div(w, h)
    IN  Then([s EXCEPT !.width = w, !.height = h, !.aspect = a,
                       !.canvas.width = ToPixels(BackingSize(w, dpi)),
                       !.canvas.height = ToPixels(BackingSize(h, dpi)),
                       !.canvas.style = << w, h >>], LAMBDA s1 :
        Then(Call(Call(s1, "viewport",
                       << 0, 0, BackingSize(w, dpi), BackingSize(h, dpi) >>),
                  "clearColor", << 0, 0, 0, 0 >>), LAMBDA s2 :
        Then(UniformSetter(s2, "resolution", << R(w), R(h) >>), LAMBDA s3 :
        Then([s3 EXCEPT !.camera = CameraAfter(s3, a)], LAMBDA s4 :
        Then(UniformSetter(s4, "projection", ProjectionMatrix(s4, s4.camera)),
             LAMBDA s5 :
        Then(Call(s5, "onResize", << w, h, dpi >>), LAMBDA s6 :
        runCallback(s6, op)))))))

mousemove(s, pageX, pageY) ==
    LET x == RSub(RMul(Div(pageX, s.width), R(2)), R(1))
        y == RSub(RMul(Div(pageY, s.height), R(2)), R(1))
    IN  UniformSetter(s, "mousemove", << x, y >>)

\* the divisor of `elapsed`
ElapsedScale == 5000

update(s, op) ==
    LET elapsed == Div(s.now - s.time.start, ElapsedScale)
        delta == s.now - s.time.old
    IN  Then(UniformSetter([s EXCEPT !.time.old = s.now], "time", elapsed),
             LAMBDA s1 :
        Then(IF Positive(s1.count)
             THEN Call(Call(s1, "clear", << "COLOR_BUFFER_BIT" >>),
                       "drawArrays", << "POINTS", 0, s1.count >>)
             ELSE s1, LAMBDA s2 :
        Then(Call(s2, "onUpdate", << delta >>), LAMBDA s3 :
        Then(runCallback(s3, op), LAMBDA s4 :
        Then(requestAnimationFrame(s4), LAMBDA s5 :
        [s5 EXCEPT !.animationFrameId = s4.rafNext, !.frames = @ + 1])))))

-----------------------------------------------------------------------------
\* Inputs

\* 3n numbers: n vertices
Triples(n) == [i \in 1..(3 * n) |-> i]

PositionInputs == { Triples(n) : n \in 0..MaxTriples }

ColorInputs == { << >>, << 1, 1, 1, 1 >> }

BufferInputs(name) ==
    CASE name = "position" -> PositionInputs
      [] name = "color" -> ColorInputs
      [] OTHER -> { << 1, 2, 3 >> }

\* data handed to setBuffer(name, data) directly
UploadInputs(name) ==
    IF name = "color" THEN { << 1, 1, 1, 1 >> } ELSE { << 1, 2, 3 >> }

\* a name that is no key of data.uniforms / data.buffers
Unregistered == "unregistered"

\* numbers the user writes into uniforms
NumberInputs == { Div(1, 2) }

\* the uniforms that are active in the linked program: all of them, or the
\* ones the default shaders actually use (a driver reports no location for a
\* uniform that is declared but unused, or not declared at all)
ActiveChoices == { UniformNames, { "hasTexture", "projection" } }

InfoLogs == { "ERROR: 0:1: syntax error", "ERROR: varyings do not match" }

\* what the driver reports for the two compilations and the link, with the
\* info log of the step that fails (a step after a failed one never runs)
Builds ==
    { [vertex |-> TRUE, fragment |-> TRUE, link |-> TRUE, infoLog |-> ""] }
    \cup { [vertex |-> FALSE, fragment |-> TRUE, link |-> TRUE, infoLog |-> d] :
               d \in InfoLogs }
    \cup { [vertex |-> TRUE, fragment |-> FALSE, link |-> TRUE, infoLog |-> d] :
               d \in InfoLogs }
    \cup { [vertex |-> TRUE, fragment |-> TRUE, link |-> FALSE, infoLog |-> d] :
               d \in InfoLogs }

\* holder.offsetWidth, holder.offsetHeight and devicePixelRatio at construction
InitialLayouts == { [box |-> << 800, 600 >>, dpi |-> R(2)] }

\* the same at a later window resize
Layouts == { [box |-> << 301, 150 >>, dpi |-> Div(3, 2)] }

\* e.pageX, e.pageY
Pointers == { << 200, 150 >> }

\* what onResize and onUpdate do in the constructor's own resize() and update()
InitialCallbacks == { << "none", "none" >>, << "destroy", "none" >> }

\* time between two frames, in ms
FrameIntervals == { 2500 }

Options ==
    [ contextOK : BOOLEAN, build : Builds, active : ActiveChoices,
      autosize : BOOLEAN, mousemove : BOOLEAN, texture : BOOLEAN,
      perspective : BOOLEAN, position : { Triples(1) },
      layout : InitialLayouts, callbacks : InitialCallbacks ]

-----------------------------------------------------------------------------
\* constructor

addListeners(s, o) ==
    LET s1 == IF o.autosize
              THEN [Call(s, "addEventListener", << "resize" >>)
                       EXCEPT !.listeners = @ \cup { "resize" },
                              !.resizeHandler = TRUE]
              ELSE s
    IN  IF o.mousemove
        THEN [Call(s1, "addEventListener", << "mousemove" >>)
                 EXCEPT !.listeners = @ \cup { "mousemove" },
                        !.mousemoveHandler = TRUE]
        ELSE s1

constructor(s, o) ==
    IF ~o.contextOK
    THEN [Throw(s, << "WebGL not supported" >>) EXCEPT !.phase = "failed"]
    ELSE
    Then([Call(s, "appendChild", << "canvas" >>)
             EXCEPT !.camera = [ fov |-> 90, near |-> 1, far |-> 3,
                                 aspect |-> R(1), z |-> 100,
                                 perspective |-> o.perspective ],
                    !.canvas.attached = TRUE], LAMBDA s0 :
    Then(createProgram(s0, o.build), LAMBDA s1 :
    IF s1.thrown # NoError THEN [s1 EXCEPT !.phase = "failed"] ELSE
    Then(createBuffers(s1, [ position |-> o.position,
                             color |-> Fill(4 * (Len(o.position) \div 3), 1) ]),
         LAMBDA s2 :
    Then(createUniforms(s2, o.active), LAMBDA s3 :
    Then(updateBuffers(s3), LAMBDA s4 :
    Then(updateUniforms(s4), LAMBDA s5 :
    Then(createTexture(s5, o.texture), LAMBDA s6 :
    Then(addListeners(s6, o), LAMBDA s7 :
    Then(resize(s7, o.layout.box, o.layout.dpi, o.callbacks[1]), LAMBDA s8 :
    Then([s8 EXCEPT !.time = [start |-> s8.now, old |-> s8.now]], LAMBDA s9 :
    [update(s9, o.callbacks[2]) EXCEPT !.phase = "live"]))))))))))

-----------------------------------------------------------------------------
\* The state machine

\* the operation that ran last, for the properties
Op(name, target, arg) == [op |-> name, name |-> target, arg |-> arg]

\* the running handler starts with an empty call record
Begin(s, op) == [s EXCEPT !.log = << >>, !.thrown = NoError, !.last = op]

Init ==
    /\ phase = "new"
    /\ thrown = NoError
    /\ log = << >>
    /\ last = Op("none", "", << >>)
    /\ objects = << >>
    /\ arrayBuffer = Null
    /\ currentProgram = Null
    /\ uniforms = << >>
    /\ buffers = << >>
    /\ uniformsOwn = { }
    /\ buffersOwn = { }
    /\ count = R(0)
    /\ width = 0
    /\ height = 0
    /\ aspect = R(1)
    /\ camera = << >>
    /\ canvas = [ width |-> 300, height |-> 150, style |-> << >>,
                  attached |-> FALSE ]
    /\ animationFrameId = Null
    /\ resizeHandler = FALSE
    /\ mousemoveHandler = FALSE
    /\ program = Null
    /\ texture = Null
    /\ listeners = { }
    /\ rafPending = { }
    /\ rafNext = 1
    /\ time = [ start |-> 0, old |-> 0 ]
    /\ now = 0
    /\ destroyCalls = 0
    /\ frames = 0
    /\ writes = 0
    /\ written = << >>

\* new ShaderProgram(holder, options)
Construct ==
    /\ phase = "new"
    /\ \E o \in Options :
          Commit(constructor([Begin(Cur, Op("constructor", "", << >>))
                                 EXCEPT !.written = o.position],
                             o))

\* the host runs a pending frame callback
Frame ==
    /\ phase = "live"
    /\ frames <= MaxFrames
    /\ \E id \in rafPending, dt \in FrameIntervals, op \in CallbackOps :
          Commit(update([Begin(Cur, Op("update", "", op))
                            EXCEPT !.rafPending = @ \ { id }, !.now = @ + dt],
                        op))

\* the host dispatches a window resize event
WindowResize ==
    /\ phase = "live"
    /\ "resize" \in listeners
    /\ \E l \in Layouts, op \in CallbackOps :
          Commit(resize(Begin(Cur, Op("resize", "", << l.box, l.dpi, op >>)),
                        l.box, l.dpi, op))

\* the host dispatches a mousemove event
MouseMove ==
    /\ phase = "live"
    /\ "mousemove" \in listeners
    /\ \E e \in Pointers :
          Commit(mousemove(Begin(Cur, Op("mousemove", "", e)), e[1], e[2]))

\* surface.uniforms[name] = value
WriteUniform ==
    /\ phase = "live"
    /\ writes < MaxWrites
    /\ destroyCalls = 0
    /\ \E name \in UniformNames \cup { Unregistered }, q \in NumberInputs :
          LET value == IF name \in UniformNames
                       THEN ValueOfKind(UniformType(name), q) ELSE q
          IN  Commit(UniformSetter(
                         [Begin(Cur, Op("uniforms", name, value))
                             EXCEPT !.writes = @ + 1],
                         name, value))

\* surface.buffers[name] = data
WriteBuffer ==
    /\ phase = "live"
    /\ writes < MaxWrites
    /\ destroyCalls = 0
    /\ \E name \in BufferNames \cup { Unregistered } :
       \E data \in BufferInputs(name) :
          Commit(BufferSetter(
                     [Begin(Cur, Op("buffers", name, data))
                         EXCEPT !.writes = @ + 1,
                                !.written = IF name = "position" THEN data ELSE @],
                     name, data))

\* surface.setBuffer(name, data), surface.setBuffer(name), surface.setBuffer(null)
SetBuffer ==
    /\ phase = "live"
    /\ writes < MaxWrites
    /\ destroyCalls = 0
    /\ \E name \in BufferNames \cup { Unregistered, NullName } :
       \E hasData \in IF name = NullName THEN { FALSE } ELSE BOOLEAN :
       \E data \in IF hasData THEN UploadInputs(name) ELSE { << >> } :
          Commit(setBuffer(
                     [Begin(Cur, Op("setBuffer", name, << hasData, data >>))
                         EXCEPT !.writes = @ + 1],
                     name, hasData, data))

\* surface.destroy()
Destroy ==
    /\ phase = "live"
    /\ destroyCalls < MaxDestroy
    /\ Commit(destroy(Begin(Cur, Op("destroy", "", << >>))))

Next ==
    \/ Construct
    \/ Frame
    \/ WindowResize
    \/ MouseMove
    \/ WriteUniform
    \/ WriteBuffer
    \/ SetBuffer
    \/ Destroy

Spec == Init /\ [][Next]_vars

-----------------------------------------------------------------------------
\* Properties.  What the handler that ran last did is read off `last` (the
\* operation and its arguments) and `log` (the calls it issued, in order).

Constructed == phase = "live"

\* positions in the call record of the calls named fn
CallsTo(fn) == { i \in 1..Len(log) : log[i][1] = fn }

\* the upload call the interface names for each uniform kind
KindCall(type) ==
    CASE type = "int" -> "uniform1i"
      [] type = "float" -> "uniform1f"
      [] type = "vec2" -> "uniform2f"
      [] type = "vec3" -> "uniform3f"
      [] type = "vec4" -> "uniform4f"
      [] type = "mat2" -> "uniformMatrix2fv"
      [] type = "mat3" -> "uniformMatrix3fv"
      [] type = "mat4" -> "uniformMatrix4fv"

KindCalls ==
    { "uniform1i", "uniform1f", "uniform2f", "uniform3f", "uniform4f",
      "uniformMatrix2fv", "uniformMatrix3fv", "uniformMatrix4fv" }

\* the uniform uploads of the handler that ran last
Uploads == SelectSeq(log, LAMBDA e : e[1] \in KindCalls)

\* the graphics objects destroy() is to release
Releasable ==
    { h \in 1..Len(objects) : objects[h].kind \in { "buffer", "texture", "program" } }

\* C1: once destroy() has been called, wherever it was called from, no frame
\* callback is scheduled with the host and update never runs again.
C1_DestroyStopsTheLoop ==
    [][ /\ (destroyCalls' > 0 => rafPending' = { })
        /\ (destroyCalls > 0 => frames' = frames) ]_vars

\* C2: over any sequence of destroy() calls nothing is raised and every buffer,
\* texture and program handle is deleted at most once.
C2_ReleasedAtMostOnce ==
    Constructed =>
        /\ (last.op = "destroy" => thrown = NoError)
        /\ \A h \in Releasable : objects[h].deletes <= 1

\* C3: when a write to a registered buffer returns (buffers.<name> = data at
\* any time, or the constructor's initial upload), no ARRAY_BUFFER is bound.
C3_BindingClearedAfterWrite ==
    /\ (last.op = "constructor" /\ Constructed => arrayBuffer = Null)
    /\ (last.op = "buffers" /\ last.name \in BufferNames => arrayBuffer = Null)

\* C4 as stated: a write to a registered uniform is read back unchanged and
\* issues exactly one upload, the one of the uniform's kind, location or not.
C4_OneUploadPerWrite ==
    last.op = "uniforms" /\ last.name \in UniformNames =>
        /\ UniformGetter(Cur, last.name) = last.arg
        /\ Len(Uploads) = 1
        /\ Uploads[1][1] = KindCall(UniformType(last.name))

\* C4 as amended: a write to a registered uniform is read back unchanged; it
\* issues exactly one upload, of the uniform's kind and with the written value,
\* when the program reports a location for the uniform, and none otherwise.
C4_OneUploadPerLocatedWrite ==
    last.op = "uniforms" /\ last.name \in UniformNames =>
        LET uniform == uniforms[last.name]
        IN  /\ UniformGetter(Cur, last.name) = last.arg
            /\ IF uniform.location = Null
               THEN Uploads = << >>
               ELSE /\ Len(Uploads) = 1
                    /\ Uploads[1][1] = KindCall(uniform.type)
                    /\ Uploads[1][2][1] = uniform.location
                    /\ Uploads[1][2] =
                           IF uniform.type \in { "int", "float" }
                           THEN << uniform.location, last.arg >>
                           ELSE IF uniform.type \in { "vec2", "vec3", "vec4" }
                           THEN << uniform.location >> \o last.arg
                           ELSE << uniform.location, FALSE, last.arg >>

\* a located mat3 uniform has been written and uploaded by uniformMatrix3fv
C4_Witness ==
    /\ last.op = "uniforms"
    /\ last.name = "basis"
    /\ uniforms["basis"].location # Null
    /\ uniforms["basis"].value = Fill(9, Div(1, 2))
    /\ Len(Uploads) = 1
    /\ Uploads[1][1] = "uniformMatrix3fv"

\* C5: after any sequence of writes through the buffers accessor, the vertex
\* count is the number of triples last written to buffers.position, whatever
\* was written to other buffers; a frame that runs while that data is empty
\* clears and draws nothing and still calls onUpdate once, and a frame that
\* runs while it holds N > 0 triples draws N points.
C5_CountFollowsPosition ==
    Constructed =>
        /\ count[2] = 1
        /\ 3 * count[1] = Len(written)
        /\ buffers["position"].data = written
        /\ (last.op \in { "update", "constructor" } =>
               /\ Cardinality(CallsTo("onUpdate")) = 1
               /\ (Len(written) = 0 =>
                      CallsTo("clear") = { } /\ CallsTo("drawArrays") = { })
               /\ (Len(written) > 0 =>
                      \E i \in CallsTo("drawArrays") :
                          log[i][2] = << "POINTS", 0, R(Len(written) \div 3) >>))

\* a frame ran after zero-length data replaced the constructor's one triple:
\* nothing drawn, onUpdate called
C5_Witness ==
    /\ last.op = "update"
    /\ writes = 1
    /\ written = << >>
    /\ count = R(0)
    /\ CallsTo("drawArrays") = { }
    /\ CallsTo("onUpdate") # { }

\* C6: when construction aborts on a compile or link failure, no shader object
\* is left allocated and the error carries the driver's info log.
C6_ShadersReleasedOnFailure ==
    phase = "failed" /\ Len(thrown) = 2 =>
        /\ thrown[2] \in InfoLogs
        /\ LiveShaders(Cur) = { }

\* C7: after destroy() no listener of the surface is registered, every buffer,
\* the texture and the program have been deleted, and the canvas is detached,
\* whatever the options were.
C7_DestroyReleasesEverything ==
    Constructed /\ destroyCalls > 0 =>
        /\ listeners = { }
        /\ ~resizeHandler
        /\ ~mousemoveHandler
        /\ \A name \in BufferNames : objects[buffers[name].buffer].deletes >= 1
        /\ Cardinality({ h \in Releasable : objects[h].kind = "buffer" })
               = Cardinality(BufferNames)
        /\ \A h \in Releasable : objects[h].deletes >= 1
        /\ texture \in Releasable
        /\ program \in Releasable
        /\ ~canvas.attached

\* destroy() on a surface built without autosize and mousemove: no listener to
\* remove, and the later steps ran all the same
C7_Witness ==
    /\ last.op = "destroy"
    /\ destroyCalls = 1
    /\ CallsTo("removeEventListener") = { }
    /\ CallsTo("deleteBuffer") # { }
    /\ CallsTo("deleteTexture") # { }
    /\ CallsTo("deleteProgram") # { }
    /\ CallsTo("removeChild") # { }

\* the layout and pixel ratio the last resize() ran with
ResizeArgs ==
    IF last.op = "resize"
    THEN [box |-> last.arg[1], dpi |-> last.arg[2]]
    ELSE CHOOSE l \in InitialLayouts : TRUE

Resized == last.op = "resize" \/ (last.op = "constructor" /\ Constructed)

\* some call named fn, with arguments satisfying Args, precedes the one onResize
PushedBeforeCallback(fn, Args(_)) ==
    \E i \in CallsTo(fn), j \in CallsTo("onResize") : i < j /\ Args(log[i][2])

\* C8 as stated: a resize sets width, height and the backing size w*d by h*d,
\* pushes the resolution and the projection to the context, and then calls
\* onResize once with (w, h, d).
C8_ResizePushesThenCalls ==
    Resized =>
        LET w == ResizeArgs.box[1]
            h == ResizeArgs.box[2]
            d == ResizeArgs.dpi
        IN  /\ width = w /\ height = h
            /\ R(canvas.width) = Div(w * d[1], d[2])
            /\ R(canvas.height) = Div(h * d[1], d[2])
            /\ Cardinality(CallsTo("onResize")) = 1
            /\ \A j \in CallsTo("onResize") : log[j][2] = << w, h, d >>
            /\ PushedBeforeCallback("uniform2f",
                   LAMBDA a : a[2] = R(w) /\ a[3] = R(h))
            /\ PushedBeforeCallback("uniformMatrix4fv",
                   LAMBDA a : a[3] = uniforms["projection"].value)

\* C8 as amended: a resize sets width = w and height = h, sets the backing
\* canvas to the integer parts of w*d and h*d and the viewport to w*d by h*d,
\* stores the resolution [w, h] and the projection in their uniforms, pushes
\* each of the two to the context exactly when the program reports a location
\* for it, and after that calls onResize once with (w, h, d).
C8_ResizeStoresPushesLocatedThenCalls ==
    Resized =>
        LET w == ResizeArgs.box[1]
            h == ResizeArgs.box[2]
            d == ResizeArgs.dpi
        IN  /\ width = w /\ height = h
            /\ canvas.width = (w * d[1]) \div d[2]
            /\ canvas.height = (h * d[1]) \div d[2]
            /\ \E i \in CallsTo("viewport") :
                   log[i][2] = << 0, 0, Div(w * d[1], d[2]), Div(h * d[1], d[2]) >>
            /\ Cardinality(CallsTo("onResize")) = 1
            /\ \A j \in CallsTo("onResize") : log[j][2] = << w, h, d >>
            /\ uniforms["resolution"].value = << R(w), R(h) >>
            /\ uniforms["resolution"].location # Null
                   <=> PushedBeforeCallback("uniform2f",
                           LAMBDA a : /\ a[1] = uniforms["resolution"].location
                                      /\ a[2] = R(w) /\ a[3] = R(h))
            /\ uniforms["projection"].location # Null
                   <=> PushedBeforeCallback("uniformMatrix4fv",
                           LAMBDA a : a[3] = uniforms["projection"].value)

\* the constructor's resize at 800 x 600 and pixel ratio 2, resolution pushed
C8_Witness ==
    /\ last.op = "constructor"
    /\ Constructed
    /\ canvas.width = 1600 /\ canvas.height = 1200
    /\ uniforms["resolution"].value = << R(800), R(600) >>
    /\ \E i \in CallsTo("uniform2f") : log[i][2][2] = R(800) /\ log[i][2][3] = R(600)
    /\ \E j \in CallsTo("onResize") : log[j][2] = << 800, 600, R(2) >>

\* C9: a write under a name that was never registered raises nothing, calls
\* nothing on the context and changes no binding record nor the vertex count.
C9_UnregisteredWriteIsSilent ==
    [][ writes' = writes + 1 /\ last'.name = Unregistered =>
            /\ thrown' = NoError
            /\ log' = << >>
            /\ uniforms' = uniforms
            /\ buffers' = buffers
            /\ count' = count ]_vars

\* C10 as stated: after every resize the camera's aspect is width / height.
C10_CameraAspectFollowsResize ==
    Resized => camera.aspect = Div(width, height)

\* C10 as amended: the surface's aspect is width / height after every resize;
\* the camera's aspect equals it in perspective mode and keeps its configured
\* value in orthographic mode.
C10_CameraAspectFollowsResizeInPerspective ==
    Constructed =>
        /\ aspect = Div(width, height)
        /\ camera.aspect = IF camera.perspective THEN Div(width, height) ELSE R(1)

\* a window resize from 800 x 600 to 301 x 150 in perspective mode
C10_Witness ==
    /\ last.op = "resize"
    /\ camera.perspective
    /\ width = 301 /\ height = 150
    /\ camera.aspect = Div(301, 150)

\* C11: from the end of construction until destroy(), with update run only by
\* the constructor and by the host's frame scheduler and with user callbacks
\* that return, exactly one frame callback is pending between frames and
\* animationFrameId identifies it; every run of update requests exactly one
\* frame, after its one call of onUpdate, and a resize or mousemove event or a
\* uniform or buffer write between frames requests none.
C11_OneFramePending ==
    Constructed /\ destroyCalls = 0 =>
        /\ animationFrameId # Null
        /\ rafPending = { animationFrameId }
        /\ (last.op \in { "constructor", "update" } =>
               /\ Cardinality(CallsTo("requestAnimationFrame")) = 1
               /\ Cardinality(CallsTo("onUpdate")) = 1
               /\ \A i \in CallsTo("onUpdate"), j \in CallsTo("requestAnimationFrame") :
                      i < j /\ log[j][2] = << animationFrameId >>)
        /\ (last.op \notin { "constructor", "update" } =>
               CallsTo("requestAnimationFrame") = { })

\* the host ran the frame the constructor requested and its successor is the
\* one frame pending
C11_Witness ==
    /\ last.op = "update"
    /\ destroyCalls = 0
    /\ frames = 2
    /\ animationFrameId = 2
    /\ rafPending = { 2 }
    /\ CallsTo("onUpdate") # { }

====
